---- MODULE Spec2Model ----
(***************************************************************************)
(* Model of the generation job queue of backend/src/services/queueService  *)
(* (BullMQ queues and workers, the two processors, the worker event        *)
(* handlers, the GeneratedOutput and UsageLog tables and the socket        *)
(* notification channel), of the socket rooms of the server, and of the    *)
(* account routes of backend/src/routes/auth with the authenticate         *)
(* middleware.  The three parts have a specification each: Spec (queue),   *)
(* SpecChannel (a job and the socket clients) and SpecAuth (accounts);     *)
(* SpecSlice is the auth slice of the front-end store.                     *)
(*                                                                         *)
(* Every await of the source is one step of the model: a database write,   *)
(* the HTTP call to the generation backend and the hand-over of a finished *)
(* attempt to the queue library are separate actions, so that the          *)
(* processors, the retries and the asynchronous event handlers interleave  *)
(* the way they do on the Node event loop.  processingTime is a wall-clock *)
(* difference and is not tracked.                                          *)
(***************************************************************************)
EXTENDS Integers, Sequences, FiniteSets, Bags, TLC

\* ---------------------------------------------------------------- bounds
\* jobs of the image pool and of the video pool workload
PoolImage == 3
PoolVideo == 2
\* faults the environment may inject in a workload of several jobs of one
\* queue, and in the workload of one image job and one video job
PoolFaults == 0
PairFaults == 2

\* ------------------------------------------------------ program constants
ImageAttempts == 3
VideoAttempts == 2
ImageConcurrency == 2
VideoConcurrency == 1
ImagePriority == 10
VideoPriority == 5

MaxAttempts == IF ImageAttempts > VideoAttempts THEN ImageAttempts ELSE VideoAttempts

NULL == "null"
NoPath == <<>>
Users == {"u1", "u2"}
Types == {"IMAGE", "VIDEO"}
Sockets == {"s1", "s2"}
Requests == {"r1", "r2"}

VARIABLES rows, jobs, handlers, usageLog, events, calls, faultLimit, anyType
VARIABLES rooms, inbox
VARIABLES users, subscriptions, sessions, now, env, reqs
VARIABLES auth, cookie, pending, dispatched

\* the state of the socket server, of the auth routes and of the front end
channelVars == <<rooms, inbox>>
authVars == <<users, subscriptions, sessions, now, env, reqs>>
sliceVars == <<auth, cookie, pending, dispatched>>

\* what a step of the queue service that emits nothing leaves alone
otherVars == <<anyType, rooms, inbox, authVars, sliceVars>>

vars == <<rows, jobs, handlers, usageLog, events, calls, faultLimit, anyType,
          rooms, inbox, users, subscriptions, sessions, now, env, reqs,
          auth, cookie, pending, dispatched>>

Ids == DOMAIN rows

\* ------------------------------------------------------------ data model
\* interface GenerationJobData (the fields the queue service reads)
GenerationJobData(o, u, t) == [userId |-> u, outputId |-> o, type |-> t]

\* model GeneratedOutput, as created by the prompt submission (PENDING)
GeneratedOutput(o, u, t) ==
    [id |-> o, userId |-> u, type |-> t, status |-> "PENDING",
     filePath |-> NoPath, thumbnailPath |-> NoPath, metadata |-> NoPath,
     errorMessage |-> NULL]

\* the JSON body the generation backend answers attempt a of output o with
Response(o, a) ==
    [filePath |-> <<"file", o, a>>, thumbnailPath |-> <<"thumb", o, a>>,
     metadata |-> <<"meta", o, a>>]

\* err.message of a rejected axios.post and of a rejected prisma call
BackendErrors == {"timeout"}
DbError == "db error"

\* defaultJobOptions.attempts of the two queues
Attempts(q) == IF q = "image" THEN ImageAttempts ELSE VideoAttempts

\* concurrency of the two workers
Concurrency(q) == IF q = "image" THEN ImageConcurrency ELSE VideoConcurrency

\* a job as the queue library keeps it
NoJob == [queue |-> "none", data |-> GenerationJobData(0, NULL, NULL), priority |-> 0,
          attempts |-> 0, attemptsMade |-> 0, state |-> "none", pc |-> "idle",
          err |-> NULL]

NewJob(q, data, prio) ==
    [queue |-> q, data |-> data, priority |-> prio, attempts |-> Attempts(q),
     attemptsMade |-> 0, state |-> "wait", pc |-> "idle", err |-> NULL]

\* ------------------------------------------------------------ workloads
Owner(o) == IF o % 2 = 1 THEN "u1" ELSE "u2"

\* every attempt of a job and every failure handler of it may fail
AllFaults == 2 * MaxAttempts

\* the outputs submitted and the faults of the environment: one job with
\* every fault, an image job and a video job of two users, a pool of jobs
\* of each queue, and two video jobs and an image job enqueued together.
\* anyType: the caller of the dispatch functions may pass job data of
\* either type (the functions take any GenerationJobData).
Workloads ==
    { [image |-> 1, video |-> 0, faults |-> AllFaults, enqueued |-> FALSE, anyType |-> TRUE],
      [image |-> 0, video |-> 1, faults |-> AllFaults, enqueued |-> FALSE, anyType |-> TRUE],
      [image |-> 1, video |-> 1, faults |-> PairFaults, enqueued |-> FALSE, anyType |-> FALSE],
      [image |-> PoolImage, video |-> 0, faults |-> PoolFaults, enqueued |-> FALSE, anyType |-> FALSE],
      [image |-> 0, video |-> PoolVideo, faults |-> PoolFaults, enqueued |-> FALSE, anyType |-> FALSE],
      [image |-> 1, video |-> 2, faults |-> PoolFaults, enqueued |-> TRUE, anyType |-> FALSE] }

TypeIn(w, o) == IF o <= w.image THEN "IMAGE" ELSE "VIDEO"

QueueOf(t) == IF t = "IMAGE" THEN "image" ELSE "video"

PriorityOf(q) == IF q = "image" THEN ImagePriority ELSE VideoPriority

\* no socket client is connected
NoClients ==
    /\ rooms = [s \in Sockets |-> {}]
    /\ inbox = [s \in Sockets |-> {}]

\* no browser has loaded the front end
NoBrowser ==
    /\ auth = <<>>
    /\ cookie = NULL
    /\ pending = <<>>
    /\ dispatched = NULL

\* the account routes are not in use
NoAccounts ==
    /\ users = <<>>
    /\ subscriptions = {}
    /\ sessions = {}
    /\ now = 0
    /\ env = <<>>
    /\ reqs = <<>>

Init ==
    \E w \in Workloads :
        /\ rows = [o \in 1..(w.image + w.video) |-> GeneratedOutput(o, Owner(o), TypeIn(w, o))]
        /\ jobs = [o \in 1..(w.image + w.video) |->
                     IF w.enqueued
                     THEN NewJob(QueueOf(TypeIn(w, o)),
                                 GenerationJobData(o, Owner(o), TypeIn(w, o)),
                                 PriorityOf(QueueOf(TypeIn(w, o))))
                     ELSE NoJob]
        /\ handlers = [o \in 1..(w.image + w.video) |-> <<>>]
        /\ usageLog = {}
        /\ events = {}
        /\ calls = [o \in 1..(w.image + w.video) |-> 0]
        /\ faultLimit = w.faults
        /\ anyType = w.anyType
        /\ NoClients
        /\ NoAccounts
        /\ NoBrowser

\* ---------------------------------------------------------------- faults
RECURSIVE SumOver(_, _)
SumOver(f, S) ==
    IF S = {} THEN 0
    ELSE LET x == CHOOSE y \in S : TRUE IN f[x] + SumOver(f, S \ {x})

\* failed attempts so far plus failure handlers whose own write was rejected
FaultsUsed ==
    SumOver([o \in Ids |-> Len(handlers[o])
                           + Cardinality({a \in DOMAIN handlers[o] : handlers[o][a].pc = "threw"})
                           + (IF jobs[o].pc = "throw" THEN 1 ELSE 0)],
            Ids)

MayFail == FaultsUsed < faultLimit

\* ------------------------------------------------------------ dispatcher
\* faulty variant: enqueueing also marks the output PROCESSING
AddImageGenerationJobMarking(data) ==
    /\ jobs' = [jobs EXCEPT ![data.outputId] = NewJob("image", data, ImagePriority)]
    /\ rows' = [rows EXCEPT ![data.outputId].status = "PROCESSING"]
    /\ UNCHANGED <<handlers, usageLog, events, calls, faultLimit, otherVars>>

\* addImageGenerationJob
AddImageGenerationJob(data) ==
    /\ jobs' = [jobs EXCEPT ![data.outputId] = NewJob("image", data, ImagePriority)]
    /\ UNCHANGED <<rows, handlers, usageLog, events, calls, faultLimit, otherVars>>

\* addVideoGenerationJob
AddVideoGenerationJob(data) ==
    /\ jobs' = [jobs EXCEPT ![data.outputId] = NewJob("video", data, VideoPriority)]
    /\ UNCHANGED <<rows, handlers, usageLog, events, calls, faultLimit, otherVars>>

\* the type field of the job data a caller passes for output o
TypesPassed(o) == IF anyType THEN Types ELSE {rows[o].type}

\* the generate route hands each submitted output to the queue of its type
Dispatch(o) ==
    /\ jobs[o].state = "none"
    /\ \E t \in TypesPassed(o) :
         LET data == GenerationJobData(o, rows[o].userId, t) IN
           IF rows[o].type = "IMAGE"
           THEN AddImageGenerationJob(data)
           ELSE AddVideoGenerationJob(data)

\* ---------------------------------------------------------------- workers
Active(q) == {o \in Ids : jobs[o].queue = q /\ jobs[o].state = "active"}

\* faulty variant: the worker takes one job more than its concurrency
HasFreeSlotOffByOne(q) == Cardinality(Active(q)) <= Concurrency(q)

\* a worker slot of the job's queue is free
HasFreeSlot(q) == Cardinality(Active(q)) < Concurrency(q)

\* no waiting job of the same queue goes first (a lower number is served
\* first; the order among equal priorities is left open)
IsNext(o) ==
    \A p \in Ids :
        (jobs[p].queue = jobs[o].queue /\ jobs[p].state = "wait")
            => jobs[p].priority >= jobs[o].priority

\* faulty variant: image and video jobs share one prioritised queue, so a waiting
\* job of either type with a lower priority number goes first
PickupOneQueue(o) ==
    /\ jobs[o].state = "wait"
    /\ HasFreeSlot(jobs[o].queue)
    /\ \A p \in Ids : jobs[p].state = "wait" => jobs[p].priority >= jobs[o].priority
    /\ jobs' = [jobs EXCEPT ![o].state = "active", ![o].pc = "mark"]
    /\ UNCHANGED <<rows, handlers, usageLog, events, calls, faultLimit, otherVars>>

\* a free slot of the queue's worker takes a waiting job and calls the processor
Pickup(o) ==
    /\ jobs[o].state = "wait"
    /\ HasFreeSlot(jobs[o].queue)
    /\ IsNext(o)
    /\ jobs' = [jobs EXCEPT ![o].state = "active", ![o].pc = "mark"]
    /\ UNCHANGED <<rows, handlers, usageLog, events, calls, faultLimit, otherVars>>

\* the processor's promise rejects with message msg
Throw(o, msg) ==
    jobs' = [jobs EXCEPT ![o].pc = "throw", ![o].err = msg]

\* updateGenerationStatus: one row-level update of the status column
UpdateGenerationStatus(o, status) ==
    rows' = [rows EXCEPT ![o].status = status]

\* await updateGenerationStatus(outputId, 'PROCESSING')
MarkProcessing(o) ==
    /\ jobs[o].state = "active"
    /\ jobs[o].pc = "mark"
    /\ \/ /\ UpdateGenerationStatus(jobs[o].data.outputId, "PROCESSING")
          /\ jobs' = [jobs EXCEPT ![o].pc = "call"]
       \/ /\ MayFail
          /\ Throw(o, DbError)
          /\ UNCHANGED rows
    /\ UNCHANGED <<handlers, usageLog, events, calls, faultLimit, otherVars>>

\* await axios.post(AI_SERVICE_URL/generate/..., {timeout})
CallBackend(o) ==
    /\ jobs[o].state = "active"
    /\ jobs[o].pc = "call"
    /\ calls' = [calls EXCEPT ![o] = @ + 1]
    /\ \/ jobs' = [jobs EXCEPT ![o].pc = "store"]
       \/ /\ MayFail
          /\ \E msg \in BackendErrors : Throw(o, msg)
    /\ UNCHANGED <<rows, handlers, usageLog, events, faultLimit, otherVars>>

\* await prisma.generatedOutput.update({status: 'COMPLETED', filePath, ...})
StoreResult(o) ==
    /\ jobs[o].state = "active"
    /\ jobs[o].pc = "store"
    /\ \/ /\ LET response == Response(jobs[o].data.outputId, jobs[o].attemptsMade + 1) IN
               rows' = [rows EXCEPT ![jobs[o].data.outputId] =
                          [@ EXCEPT !.status = "COMPLETED",
                                    !.filePath = response.filePath,
                                    !.thumbnailPath = response.thumbnailPath,
                                    !.metadata = response.metadata]]
          /\ jobs' = [jobs EXCEPT ![o].pc = "log"]
       \/ /\ MayFail
          /\ Throw(o, DbError)
          /\ UNCHANGED rows
    /\ UNCHANGED <<handlers, usageLog, events, calls, faultLimit, otherVars>>

\* faulty variant: the usage row is written although the call is rejected
LogUsageOfFailedAttempt(o, action) ==
    /\ jobs[o].state = "active"
    /\ jobs[o].pc = "log"
    /\ usageLog' = usageLog \cup
           {[userId |-> jobs[o].data.userId, action |-> action,
             metadata |-> Response(jobs[o].data.outputId, jobs[o].attemptsMade + 1).metadata]}
    /\ \/ jobs' = [jobs EXCEPT ![o].pc = "return"]
       \/ /\ MayFail
          /\ Throw(o, DbError)
    /\ UNCHANGED <<rows, handlers, events, calls, faultLimit, otherVars>>

\* logUsage: prisma.usageLog.create
LogUsage(o, action) ==
    /\ jobs[o].state = "active"
    /\ jobs[o].pc = "log"
    /\ \/ /\ usageLog' = usageLog \cup
                 {[userId |-> jobs[o].data.userId, action |-> action,
                   metadata |-> Response(jobs[o].data.outputId, jobs[o].attemptsMade + 1).metadata]}
          /\ jobs' = [jobs EXCEPT ![o].pc = "return"]
       \/ /\ MayFail
          /\ Throw(o, DbError)
          /\ UNCHANGED usageLog
    /\ UNCHANGED <<rows, handlers, events, calls, faultLimit, otherVars>>

\* processImageGeneration, one await at a time
ProcessImageGeneration(o) ==
    /\ jobs[o].queue = "image"
    /\ \/ MarkProcessing(o)
       \/ CallBackend(o)
       \/ StoreResult(o)
       \/ LogUsage(o, "generate_image")

\* processVideoGeneration, one await at a time
ProcessVideoGeneration(o) ==
    /\ jobs[o].queue = "video"
    /\ \/ MarkProcessing(o)
       \/ CallBackend(o)
       \/ StoreResult(o)
       \/ LogUsage(o, "generate_video")

\* notifyUser: io.to(`user-${userId}`).emit(event, data); attempt is a
\* history field telling which attempt of the job emitted the event
NotifyUser(userId, event, data, attempt) ==
    LET e == [channel |-> <<"user", userId>>, event |-> event, data |-> data,
              attempt |-> attempt] IN
      /\ events' = events \cup {e}
      /\ inbox' = [s \in Sockets |->
                     IF e.channel \in rooms[s] THEN inbox[s] \cup {e} ELSE inbox[s]]

\* the worker moves a job whose processor returned to completed and emits
\* 'completed'; the listener calls notifyUser before its first await
WorkerCompleted(o, type) ==
    /\ jobs[o].state = "active"
    /\ jobs[o].pc = "return"
    /\ jobs' = [jobs EXCEPT ![o].state = "completed", ![o].pc = "idle",
                            ![o].attemptsMade = @ + 1]
    /\ NotifyUser(jobs[o].data.userId, "generation-complete",
                  [outputId |-> jobs[o].data.outputId, type |-> type, status |-> "COMPLETED"],
                  jobs[o].attemptsMade + 1)
    /\ UNCHANGED <<rows, handlers, usageLog, calls, faultLimit, anyType, rooms, authVars,
                   sliceVars>>

\* imageWorker.on('completed')
ImageWorkerCompleted(o) ==
    /\ jobs[o].queue = "image"
    /\ WorkerCompleted(o, "IMAGE")

\* videoWorker.on('completed')
VideoWorkerCompleted(o) ==
    /\ jobs[o].queue = "video"
    /\ WorkerCompleted(o, "VIDEO")

\* faulty variant: the queue grants one attempt more than configured
HasRetriesLeftOffByOne(attemptsMade, attempts) == attemptsMade <= attempts

\* the queue retries a failed job while attemptsMade < attempts
HasRetriesLeft(attemptsMade, attempts) == attemptsMade < attempts

\* the worker moves a job whose processor threw back to the queue (retry
\* after the backoff delay) or to failed, and emits 'failed' either way;
\* the listener starts handleJobFailure(job.data, err.message), whose first
\* statement awaits the database
WorkerFailed(o) ==
    /\ jobs[o].state = "active"
    /\ jobs[o].pc = "throw"
    /\ jobs' = [jobs EXCEPT ![o].attemptsMade = @ + 1,
                            ![o].state = IF HasRetriesLeft(jobs[o].attemptsMade + 1, jobs[o].attempts)
                                         THEN "wait" ELSE "failed",
                            ![o].pc = "idle",
                            ![o].err = NULL]
    /\ handlers' = [handlers EXCEPT ![o] =
                       Append(@, [pc |-> "update", jobData |-> jobs[o].data,
                                  errorMessage |-> jobs[o].err])]
    /\ UNCHANGED <<rows, usageLog, events, calls, faultLimit, otherVars>>

\* imageWorker.on('failed')
ImageWorkerFailed(o) ==
    /\ jobs[o].queue = "image"
    /\ WorkerFailed(o)

\* videoWorker.on('failed')
VideoWorkerFailed(o) ==
    /\ jobs[o].queue = "video"
    /\ WorkerFailed(o)

\* handleJobFailure up to its await: update({status: 'FAILED', errorMessage})
HandleJobFailureUpdate(o, a) ==
    /\ a \in DOMAIN handlers[o]
    /\ handlers[o][a].pc = "update"
    /\ \/ /\ rows' = [rows EXCEPT ![handlers[o][a].jobData.outputId] =
                          [@ EXCEPT !.status = "FAILED",
                                    !.errorMessage = handlers[o][a].errorMessage]]
          /\ handlers' = [handlers EXCEPT ![o][a].pc = "notify"]
       \/ /\ MayFail
          /\ handlers' = [handlers EXCEPT ![o][a].pc = "threw"]
          /\ UNCHANGED rows
    /\ UNCHANGED <<jobs, usageLog, events, calls, faultLimit, otherVars>>

\* handleJobFailure after its await: notifyUser(..., 'generation-failed', ...)
HandleJobFailureNotify(o, a) ==
    /\ a \in DOMAIN handlers[o]
    /\ handlers[o][a].pc = "notify"
    /\ NotifyUser(handlers[o][a].jobData.userId, "generation-failed",
                  [outputId |-> handlers[o][a].jobData.outputId,
                   type |-> handlers[o][a].jobData.type,
                   error |-> handlers[o][a].errorMessage],
                  a)
    /\ handlers' = [handlers EXCEPT ![o][a].pc = "done"]
    /\ UNCHANGED <<rows, jobs, usageLog, calls, faultLimit, anyType, rooms, authVars,
                   sliceVars>>

Next ==
    \/ \E o \in Ids : Dispatch(o)
    \/ \E o \in Ids : Pickup(o)
    \/ \E o \in Ids : ProcessImageGeneration(o)
    \/ \E o \in Ids : ProcessVideoGeneration(o)
    \/ \E o \in Ids : ImageWorkerCompleted(o)
    \/ \E o \in Ids : VideoWorkerCompleted(o)
    \/ \E o \in Ids : ImageWorkerFailed(o)
    \/ \E o \in Ids : VideoWorkerFailed(o)
    \/ \E o \in Ids : \E a \in 1..MaxAttempts : HandleJobFailureUpdate(o, a)
    \/ \E o \in Ids : \E a \in 1..MaxAttempts : HandleJobFailureNotify(o, a)

Spec == Init /\ [][Next]_vars

\* ------------------------------------------------------------ vocabulary
Terminal == {"COMPLETED", "FAILED"}

EventsOf(o) == {e \in events : e.data.outputId = o}

FailedEventsOf(o) == {e \in EventsOf(o) : e.event = "generation-failed"}

CompleteEventsOf(o) == {e \in EventsOf(o) : e.event = "generation-complete"}

\* every failure handler of the job has run to its end or was rejected
HandlersFinished(o) ==
    \A a \in DOMAIN handlers[o] : handlers[o][a].pc \in {"done", "threw"}

\* the queue is done with the job and so are the job's handlers
Settled(o) ==
    /\ jobs[o].state \in {"completed", "failed"}
    /\ HandlersFinished(o)

TypeOK ==
    /\ \A o \in Ids : rows[o].status \in {"PENDING", "PROCESSING", "COMPLETED", "FAILED"}
    /\ \A o \in Ids : jobs[o].attemptsMade <= jobs[o].attempts
    /\ \A o \in Ids : Len(handlers[o]) <= jobs[o].attemptsMade

\* ---------------------------------------------------------------- claims

\* C1: the status of a GeneratedOutput only moves PENDING -> PROCESSING ->
\* (COMPLETED or FAILED); a COMPLETED or FAILED row never changes status
\* again and is never set back to PROCESSING.
C1_StatusMonotonic ==
    [][\A o \in Ids :
         \/ rows'[o].status = rows[o].status
         \/ rows[o].status = "PENDING" /\ rows'[o].status \in {"PROCESSING"} \cup Terminal
         \/ rows[o].status = "PROCESSING" /\ rows'[o].status \in Terminal]_vars

\* C2: the row is FAILED and a generation-failed event exists only once all
\* configured attempts of the job (3 image, 2 video) have failed.
C2_FailureOnlyAfterLastAttempt ==
    \A o \in Ids :
        (rows[o].status = "FAILED" \/ FailedEventsOf(o) # {})
            => /\ jobs[o].state = "failed"
               /\ jobs[o].attemptsMade = (IF rows[o].type = "IMAGE" THEN 3 ELSE 2)

\* C3: over its whole life a job emits exactly one event, on the channel
\* user-{userId} of its own user, with its outputId: generation-complete
\* iff it ended completed, generation-failed iff it ended failed.
C3_ExactlyOneNotification ==
    \A o \in Ids :
        /\ Cardinality(EventsOf(o)) <= 1
        /\ \A e \in EventsOf(o) :
              /\ e.channel = <<"user", rows[o].userId>>
              /\ e.event = "generation-complete" <=> jobs[o].state = "completed"
              /\ e.event = "generation-failed" <=> jobs[o].state = "failed"
        /\ Settled(o) => Cardinality(EventsOf(o)) = 1

\* every configured attempt of the job was made and each of them ended with
\* the backend call rejected
AlwaysTimedOut(o) ==
    /\ jobs[o].state = "failed"
    /\ \A a \in DOMAIN handlers[o] : handlers[o][a].errorMessage \in BackendErrors

\* handleJobFailure of the job's last attempt has written the row
LastFailureRecorded(o) ==
    /\ jobs[o].state = "failed"
    /\ handlers[o][Len(handlers[o])].pc \in {"notify", "done"}

\* C4: a job whose backend call times out on every attempt makes exactly 3
\* (image) or 2 (video) backend calls and is never attempted again; once
\* the failure of its last attempt has been recorded its row is FAILED with
\* a non-empty errorMessage.  No job makes more calls than that.
C4_RetriedExactlyAttemptsTimes ==
    \A o \in Ids :
        /\ calls[o] <= (IF jobs[o].queue = "image" THEN 3 ELSE 2)
        /\ AlwaysTimedOut(o)
             => /\ calls[o] = (IF jobs[o].queue = "image" THEN 3 ELSE 2)
                /\ ~ ENABLED Pickup(o)
                /\ LastFailureRecorded(o)
                     => /\ rows[o].status = "FAILED"
                        /\ rows[o].errorMessage \notin {NULL, ""}

C4_Witness ==
    \E o \in Ids :
        /\ AlwaysTimedOut(o)
        /\ LastFailureRecorded(o)
        /\ jobs[o].queue = "image"
        /\ calls[o] = 3
        /\ rows[o].status = "FAILED"

\* the backend call of the job failed once and succeeded on the second attempt
SucceededOnSecondAttempt(o) ==
    /\ jobs[o].state = "completed"
    /\ jobs[o].attemptsMade = 2
    /\ handlers[o][1].errorMessage \in BackendErrors

\* C5: a job whose backend call fails once and then succeeds ends COMPLETED
\* with the filePath, thumbnailPath and metadata of the second response and
\* exactly one UsageLog row, in whatever order the first attempt's failure
\* handling and the second attempt's writes are applied.
C5_SecondAttemptWins ==
    \A o \in Ids :
        (Settled(o) /\ SucceededOnSecondAttempt(o))
            => /\ rows[o].status = "COMPLETED"
               /\ rows[o].filePath = Response(o, 2).filePath
               /\ rows[o].thumbnailPath = Response(o, 2).thumbnailPath
               /\ rows[o].metadata = Response(o, 2).metadata
               /\ Cardinality({u \in usageLog : u.metadata \in {Response(o, a).metadata : a \in 1..MaxAttempts}}) = 1

\* C6: at most 2 image jobs and at most 1 video job are being processed.
C6_BoundedConcurrency ==
    /\ Cardinality(Active("image")) <= 2
    /\ Cardinality(Active("video")) <= 1

C6_Witness ==
    /\ Cardinality(Active("image")) = 2
    /\ \E o \in Ids : jobs[o].queue = "image" /\ jobs[o].state = "wait"

\* the workload of two video jobs and one image job, all enqueued before
\* any worker has taken a job
EnqueuedTogether ==
    /\ Ids = 1..3
    /\ jobs[1].queue = "image"
    /\ jobs[2].queue = "video"
    /\ jobs[3].queue = "video"

\* the processor has been called for the job at least once
HasBegun(o) == jobs[o].state # "wait" \/ jobs[o].attemptsMade > 0

C8_TerminalFailureRecordedAndNotified ==
    \A o \in Ids :
        (jobs[o].state = "failed" /\ HandlersFinished(o))
            => /\ rows[o].status = "FAILED"
               /\ rows[o].errorMessage # NULL
               /\ \E e \in FailedEventsOf(o) :
                     /\ e.attempt = jobs[o].attempts
                     /\ e.channel = <<"user", rows[o].userId>>

\* C9: a job that the queue and its handlers are done with has left its
\* row COMPLETED or FAILED; no row is left PENDING or PROCESSING.
C9_EveryJobEndsTerminal ==
    \A o \in Ids : Settled(o) => rows[o].status \in Terminal

\* C10: the outcome is in the row when the event is emitted: the row is
\* COMPLETED with the result paths at a generation-complete event, and
\* FAILED with the event's error message at a generation-failed event.
C10_OutcomeStoredBeforeNotification ==
    [][\A e \in events' \ events :
         LET row == rows[e.data.outputId] IN
           /\ e.event = "generation-complete"
                => /\ row.status = "COMPLETED"
                   /\ row.filePath # NoPath
                   /\ row.thumbnailPath # NoPath
           /\ e.event = "generation-failed"
                => /\ row.status = "FAILED"
                   /\ row.errorMessage = e.data.error]_vars

\* ================================================== the socket server
\* faults of the environment while the clients are connected
ChannelFaults == 2

\* the room a socket is in from its connection on, and the room of a user
SocketRoom(s) == <<"socket", s>>
UserRoom(u) == <<"user", u>>

\* the user signed in at the client that holds socket s (the server is
\* never told: the connection carries no credentials)
SocketUser(s) == IF s = "s1" THEN "u1" ELSE "u2"

\* io.on('connection')
Connect(s) ==
    /\ rooms[s] = {}
    /\ rooms' = [rooms EXCEPT ![s] = {SocketRoom(s)}]
    /\ UNCHANGED <<rows, jobs, handlers, usageLog, events, calls, faultLimit,
                   anyType, inbox, authVars, sliceVars>>

\* socket.on('join-room', userId): the userId is what the client sent
JoinRoom(s, userId) ==
    /\ SocketRoom(s) \in rooms[s]
    /\ rooms' = [rooms EXCEPT ![s] = @ \cup {UserRoom(userId)}]
    /\ UNCHANGED <<rows, jobs, handlers, usageLog, events, calls, faultLimit,
                   anyType, inbox, authVars, sliceVars>>

\* socket.on('disconnect'): the socket has left every room
Disconnect(s) ==
    /\ SocketRoom(s) \in rooms[s]
    /\ rooms' = [rooms EXCEPT ![s] = {}]
    /\ UNCHANGED <<rows, jobs, handlers, usageLog, events, calls, faultLimit,
                   anyType, inbox, authVars, sliceVars>>

\* a video output of user u1 is submitted while clients come and go
InitChannel ==
    /\ rows = [o \in {1} |-> GeneratedOutput(o, Owner(o), "VIDEO")]
    /\ jobs = [o \in {1} |-> NoJob]
    /\ handlers = [o \in {1} |-> <<>>]
    /\ usageLog = {}
    /\ events = {}
    /\ calls = [o \in {1} |-> 0]
    /\ faultLimit = ChannelFaults
    /\ anyType = FALSE
    /\ NoClients
    /\ NoAccounts
    /\ NoBrowser

NextChannel ==
    \/ \E o \in Ids : Dispatch(o)
    \/ \E o \in Ids : Pickup(o)
    \/ \E o \in Ids : ProcessVideoGeneration(o)
    \/ \E o \in Ids : VideoWorkerCompleted(o)
    \/ \E o \in Ids : VideoWorkerFailed(o)
    \/ \E o \in Ids : \E a \in 1..MaxAttempts : HandleJobFailureUpdate(o, a)
    \/ \E o \in Ids : \E a \in 1..MaxAttempts : HandleJobFailureNotify(o, a)
    \/ \E s \in Sockets : Connect(s)
    \/ \E s \in Sockets : \E userId \in Users : JoinRoom(s, userId)
    \/ \E s \in Sockets : Disconnect(s)

SpecChannel == InitChannel /\ [][NextChannel]_vars

\* ================================================== the account routes
\* Every await of a route is one step: the step of a request runs the code
\* up to its next database call and applies that call.  bcrypt.hash,
\* bcrypt.compare and jwt.sign touch no shared state and are part of the step
\* of the database call that follows them.  The database answers every call;
\* it rejects a create that breaks a unique constraint.  Time is in seconds.

\* rows of UserSession
MaxSessions == 2

\* 7 * 24 * 60 * 60 * 1000 ms, the lifetime of a session row, and '7d', the
\* default of JWT_EXPIRES_IN
SessionLifetime == 7 * 24 * 60 * 60
DefaultJwtExpiresIn == 7 * 24 * 60 * 60

\* the instants the clock shows: two consecutive seconds, and the second a
\* session lifetime after them
Instants == {0, 1, SessionLifetime + 1}

\* what clients send to POST /register: an address with a capital, and a
\* user name that reads like the address of somebody else
Registrations ==
    { [email |-> "A@x", username |-> "ann", password |-> "pw1"],
      [email |-> "b@x", username |-> "a@x", password |-> "pw2"] }

\* what clients send to POST /login
Passwords == {"pw1", "pw2"}

\* normalizeEmail of express-validator: the address in lower case
NormalizeEmail(e) == IF e = "A@x" THEN "a@x" ELSE e

LoginNames == {g.email : g \in Registrations} \cup {g.username : g \in Registrations}

\* bcrypt.hash and bcrypt.compare
Hash(password) == <<"bcrypt", password>>
Compare(password, hash) == hash = Hash(password)

NoUser == [id |-> 0, email |-> NULL, username |-> NULL, password |-> <<>>, isActive |-> FALSE]
NoToken == [userId |-> 0, email |-> NULL, username |-> NULL, iat |-> 0, exp |-> 0, sig |-> "none"]
NoHeader == [scheme |-> "none", token |-> NoToken]
NoBody == [login |-> NULL]

\* the Authorization header of a request
Header(scheme, token) == [scheme |-> scheme, token |-> token]

\* a request slot: the route, where its handler stands, what it holds and,
\* in the state its handler answers, the response
Idle ==
    [kind |-> "none", pc |-> "idle", body |-> NoBody, header |-> NoHeader,
     user |-> NoUser, reqUser |-> NoUser, status |-> 0, message |-> NULL,
     token |-> NoToken]

\* process.env: JWT_SECRET set or not, JWT_EXPIRES_IN in seconds
Environments ==
    { [JWT_SECRET |-> TRUE, JWT_EXPIRES_IN |-> DefaultJwtExpiresIn],
      [JWT_SECRET |-> TRUE, JWT_EXPIRES_IN |-> 2 * DefaultJwtExpiresIn],
      [JWT_SECRET |-> FALSE, JWT_EXPIRES_IN |-> DefaultJwtExpiresIn] }

InitAuth ==
    /\ rows = <<>>
    /\ jobs = <<>>
    /\ handlers = <<>>
    /\ usageLog = {}
    /\ events = {}
    /\ calls = <<>>
    /\ faultLimit = 0
    /\ anyType = FALSE
    /\ NoClients
    /\ NoBrowser
    /\ users = <<>>
    /\ subscriptions = {}
    /\ sessions = {}
    /\ now = 0
    /\ env \in Environments
    /\ reqs = [r \in Requests |-> Idle]

\* jwt.sign(payload, secret, {expiresIn}) at time t: the token is a function
\* of the payload, the issue time and the secret
Sign(user, t) ==
    [userId |-> user.id, email |-> user.email, username |-> user.username,
     iat |-> t, exp |-> t + env.JWT_EXPIRES_IN, sig |-> "server"]

\* a token a client made up from an issued one, without the secret
Forged(token) == [token EXCEPT !.sig = "forged"]

\* jwt.verify: the signature is the server's and the token is not expired
Verify(token) == token.sig = "server" /\ now < token.exp

\* req.user: id, email and username of a user row
Public(user) == [NoUser EXCEPT !.id = user.id, !.email = user.email,
                               !.username = user.username]

\* createError and, for an error without a statusCode, errorHandler's 500
Error(message, statusCode) == [ok |-> FALSE, status |-> statusCode, message |-> message, user |-> NoUser]
Passed(user) == [ok |-> TRUE, status |-> 0, message |-> NULL, user |-> user]

\* the rows prisma.userSession.findUnique({where: {token}}) finds
SessionsOf(token) == {s \in sessions : s.token = token}

\* faulty variant: a session that was logged out is still accepted
AuthenticateRevoked(header) ==
    IF header.scheme # "Bearer"
    THEN Error("Authentication token required", 401)
    ELSE IF ~env.JWT_SECRET
    THEN Error("JWT secret not configured", 500)
    ELSE IF ~Verify(header.token)
    THEN Error("Invalid token", 401)
    ELSE IF \/ SessionsOf(header.token) = {}
            \/ \E s \in SessionsOf(header.token) : s.expiresAt < now
    THEN Error("Invalid or expired token", 401)
    ELSE LET session == CHOOSE s \in SessionsOf(header.token) : TRUE IN
         IF ~users[session.userId].isActive
         THEN Error("Account is deactivated", 401)
         ELSE Passed(Public(users[session.userId]))

\* authenticate: what it passes to next and the req.user it sets
Authenticate(header) ==
    IF header.scheme # "Bearer"
    THEN Error("Authentication token required", 401)
    ELSE IF ~env.JWT_SECRET
    THEN Error("JWT secret not configured", 500)
    ELSE IF ~Verify(header.token)
    THEN Error("Invalid token", 401)
    ELSE IF \/ SessionsOf(header.token) = {}
            \/ \E s \in SessionsOf(header.token) : ~s.isActive \/ s.expiresAt < now
    THEN Error("Invalid or expired token", 401)
    ELSE LET session == CHOOSE s \in SessionsOf(header.token) : TRUE IN
         IF ~users[session.userId].isActive
         THEN Error("Account is deactivated", 401)
         ELSE Passed(Public(users[session.userId]))

\* the requests being handled: a response stays in its slot for one state
InFlight == [r \in DOMAIN reqs |-> IF reqs[r].pc = "idle" THEN Idle ELSE reqs[r]]

\* request r goes on with slot as its state
Continue(r, slot) == reqs' = [InFlight EXCEPT ![r] = slot]

\* the response of request r
Respond(r, kind, status, message, token) ==
    Continue(r, [Idle EXCEPT !.kind = kind, !.status = status,
                             !.message = message, !.token = token])

\* what a step of the account routes leaves alone
nonAuthVars == <<rows, jobs, handlers, usageLog, events, calls, faultLimit, anyType,
                 rooms, inbox, sliceVars>>

\* the client of slot "r2" sends a request only while the request of slot
\* "r1" is being handled (the slots are interchangeable)
MayStart(r) ==
    /\ reqs[r].pc = "idle"
    /\ r = "r2" => reqs["r1"].pc # "idle"

\* a unique constraint rejects the create: the Prisma error has no
\* statusCode and errorHandler answers 500
UniqueConstraintFailed == "Unique constraint failed"

\* requests that will still create a UserSession row
Creating == {r \in DOMAIN reqs : reqs[r].pc \in {"create", "session"}}

\* room for one more session within the bound
MaySignIn == Cardinality(sessions) + Cardinality(Creating) < MaxSessions

\* prisma.userSession.create of register and login
NewSession(user, token) ==
    [userId |-> user.id, token |-> token, expiresAt |-> now + SessionLifetime,
     isActive |-> TRUE]

\* POST /register up to prisma.user.findFirst
RegisterFindFirst(r, email, username, password) ==
    /\ MayStart(r)
    /\ MaySignIn
    /\ LET e == NormalizeEmail(email) IN
       IF \E i \in DOMAIN users : users[i].email = e \/ users[i].username = username
       THEN Continue(r, [Idle EXCEPT !.kind = "register", !.status = 409,
                                     !.message = "Email or username already exists",
                                     !.body = [email |-> e, username |-> username,
                                               password |-> password]])
       ELSE Continue(r, [Idle EXCEPT !.kind = "register", !.pc = "create",
                                     !.body = [email |-> e, username |-> username,
                                               password |-> password]])
    /\ UNCHANGED <<users, subscriptions, sessions, now, env, nonAuthVars>>

\* POST /register: bcrypt.hash and prisma.user.create with its subscription
RegisterCreateUser(r) ==
    /\ reqs[r].kind = "register"
    /\ reqs[r].pc = "create"
    /\ LET b == reqs[r].body
           user == [id |-> Len(users) + 1, email |-> b.email, username |-> b.username,
                    password |-> Hash(b.password), isActive |-> TRUE]
       IN
       IF \E i \in DOMAIN users : users[i].email = b.email \/ users[i].username = b.username
       THEN /\ Continue(r, [Idle EXCEPT !.kind = "register", !.status = 500,
                                          !.message = UniqueConstraintFailed,
                                          !.body = b])
            /\ UNCHANGED <<users, subscriptions>>
       ELSE /\ users' = Append(users, user)
            /\ subscriptions' = subscriptions \cup
                   {[userId |-> user.id, plan |-> "FREE", status |-> "ACTIVE"]}
            /\ Continue(r, [reqs[r] EXCEPT !.pc = "session", !.user = user])
    /\ UNCHANGED <<sessions, now, env, nonAuthVars>>

\* jwt.sign and prisma.userSession.create, then the response with the token
SignAndCreateSession(r, kind, status, message) ==
    LET user == reqs[r].user
        token == Sign(user, now)
    IN
    IF ~env.JWT_SECRET
    THEN /\ Respond(r, kind, 500, "secretOrPrivateKey must have a value", NoToken)
         /\ UNCHANGED sessions
    ELSE IF SessionsOf(token) # {}
    THEN /\ Respond(r, kind, 500, UniqueConstraintFailed, NoToken)
         /\ UNCHANGED sessions
    ELSE /\ sessions' = sessions \cup {NewSession(user, token)}
         /\ Respond(r, kind, status, message, token)

\* POST /register from jwt.sign on
RegisterCreateSession(r) ==
    /\ reqs[r].kind = "register"
    /\ reqs[r].pc = "session"
    /\ SignAndCreateSession(r, "register", 201, "User registered successfully")
    /\ UNCHANGED <<users, subscriptions, now, env, nonAuthVars>>

\* faulty variant: the lookup finds deactivated users too and the route
\* tells their owner so
LoginFindFirstTelling(r, login, password) ==
    /\ MayStart(r)
    /\ MaySignIn
    /\ LET found == {i \in DOMAIN users :
                        users[i].email = login \/ users[i].username = login}
       IN
       IF found = {}
       THEN Continue(r, [Idle EXCEPT !.kind = "login", !.status = 401,
                                     !.message = "Invalid credentials",
                                     !.body = [login |-> login, password |-> password]])
       ELSE \E i \in found :
              IF users[i].isActive
              THEN Continue(r, [Idle EXCEPT !.kind = "login", !.pc = "session",
                                            !.user = users[i],
                                            !.body = [login |-> login,
                                                      password |-> password]])
              ELSE Continue(r, [Idle EXCEPT !.kind = "login", !.status = 401,
                                            !.message = "Account is deactivated",
                                            !.body = [login |-> login,
                                                      password |-> password]])
    /\ UNCHANGED <<users, subscriptions, sessions, now, env, nonAuthVars>>

\* POST /login up to prisma.user.findFirst, which returns any active user
\* whose email or username is the login name
LoginFindFirst(r, login, password) ==
    /\ MayStart(r)
    /\ MaySignIn
    /\ LET found == {i \in DOMAIN users :
                        /\ users[i].email = login \/ users[i].username = login
                        /\ users[i].isActive}
       IN
       IF found = {}
       THEN Continue(r, [Idle EXCEPT !.kind = "login", !.status = 401,
                                     !.message = "Invalid credentials",
                                     !.body = [login |-> login, password |-> password]])
       ELSE \E i \in found :
              Continue(r, [Idle EXCEPT !.kind = "login", !.pc = "session",
                                       !.user = users[i],
                                       !.body = [login |-> login, password |-> password]])
    /\ UNCHANGED <<users, subscriptions, sessions, now, env, nonAuthVars>>

\* POST /login from bcrypt.compare on
LoginCreateSession(r) ==
    /\ reqs[r].kind = "login"
    /\ reqs[r].pc = "session"
    /\ IF ~Compare(reqs[r].body.password, reqs[r].user.password)
       THEN /\ Respond(r, "login", 401, "Invalid credentials", NoToken)
            /\ UNCHANGED sessions
       ELSE SignAndCreateSession(r, "login", 200, "Login successful")
    /\ UNCHANGED <<users, subscriptions, now, env, nonAuthVars>>

\* the tokens clients hold, and the Authorization headers they may send
Issued == {s.token : s \in sessions}
Headers ==
    {NoHeader} \cup {Header("Bearer", t) : t \in Issued}
               \cup {Header("Bearer", Forged(t)) : t \in Issued}

\* POST /logout up to the end of authenticate: next() runs the handler,
\* next(error) answers with the error
AuthenticateRequest(r, header) ==
    /\ MayStart(r)
    /\ LET result == Authenticate(header) IN
       IF result.ok
       THEN Continue(r, [Idle EXCEPT !.kind = "logout", !.pc = "handler",
                                     !.header = header, !.reqUser = result.user])
       ELSE Continue(r, [Idle EXCEPT !.kind = "logout", !.header = header,
                                     !.status = result.status,
                                     !.message = result.message])
    /\ UNCHANGED <<users, subscriptions, sessions, now, env, nonAuthVars>>

\* faulty variant: logout ends every session of the user
LogoutEverywhere(r) ==
    /\ reqs[r].kind = "logout"
    /\ reqs[r].pc = "handler"
    /\ sessions' = {IF s.userId = reqs[r].reqUser.id
                    THEN [s EXCEPT !.isActive = FALSE] ELSE s : s \in sessions}
    /\ Respond(r, "logout", 200, "Logout successful", NoToken)
    /\ UNCHANGED <<users, subscriptions, now, env, nonAuthVars>>

\* POST /logout after authenticate: prisma.userSession.updateMany
Logout(r) ==
    /\ reqs[r].kind = "logout"
    /\ reqs[r].pc = "handler"
    /\ sessions' = {IF s.token = reqs[r].header.token
                    THEN [s EXCEPT !.isActive = FALSE] ELSE s : s \in sessions}
    /\ Respond(r, "logout", 200, "Logout successful", NoToken)
    /\ UNCHANGED <<users, subscriptions, now, env, nonAuthVars>>

\* an account is deactivated (User.isActive; no route of this service sets
\* it back)
DeactivateUser(i) ==
    /\ users[i].isActive
    /\ users' = [users EXCEPT ![i].isActive = FALSE]
    /\ reqs' = InFlight
    /\ UNCHANGED <<subscriptions, sessions, now, env, nonAuthVars>>

\* time passes
Advance(t) ==
    /\ t > now
    /\ now' = t
    /\ reqs' = InFlight
    /\ UNCHANGED <<users, subscriptions, sessions, env, nonAuthVars>>

NextAuth ==
    \/ \E r \in Requests : \E g \in Registrations :
         RegisterFindFirst(r, g.email, g.username, g.password)
    \/ \E r \in Requests : RegisterCreateUser(r)
    \/ \E r \in Requests : RegisterCreateSession(r)
    \/ \E r \in Requests : \E l \in LoginNames : \E p \in Passwords :
         LoginFindFirst(r, l, p)
    \/ \E r \in Requests : LoginCreateSession(r)
    \/ \E r \in Requests : \E h \in Headers : AuthenticateRequest(r, h)
    \/ \E r \in Requests : Logout(r)
    \/ \E i \in DOMAIN users : DeactivateUser(i)
    \/ \E t \in Instants : Advance(t)

SpecAuth == InitAuth /\ [][NextAuth]_vars

(***************************************************************************)
(* The auth slice of the front-end store (authSlice.ts).  auth is the      *)
(* slice state, cookie the auth_token cookie of the browser, pending the   *)
(* bag of thunks that were dispatched and have not settled, dispatched the *)
(* type of the last action the store reduced.  A thunk is dispatched in    *)
(* one step (its pending action, and its payload creator up to the API     *)
(* call) and settles in another (the rest of the payload creator, with its *)
(* cookie operation, and the fulfilled or rejected action).  The API       *)
(* answers with a user and a token of the server, or fails with or without *)
(* a message of the server.                                                *)
(***************************************************************************)
\* thunks in flight at once
MaxPending == 2

\* the tokens the server issues
Tokens == {"t1", "t2"}

\* user: null
NoProfile == [id |-> NULL, username |-> NULL, firstName |-> NULL]

\* the users the server answers with
Profiles == {[id |-> "u1", username |-> "ann", firstName |-> NULL],
             [id |-> "u2", username |-> "bob", firstName |-> "Bob"]}

\* the payloads of updateUser
Updates == {[firstName |-> "Ann"], [username |-> "amy", firstName |-> "Amy"]}

\* error.response?.data?.error?.message of a failed call: NULL without one
ApiErrors == {NULL, "Internal server error"}

initialState ==
    [user |-> NoProfile,
     token |-> cookie,
     isAuthenticated |-> FALSE,
     loading |-> FALSE,
     error |-> NULL]

\* a thunk in flight; checkAuth keeps the token it read from the cookie
Thunk(kind, token) == [kind |-> kind, token |-> token]

\* error.response?.data?.error?.message || fallback
Message(error, fallback) == IF error = NULL THEN fallback ELSE error

\* { ...state.user, ...action.payload }
Spread(user, payload) ==
    [k \in DOMAIN user \cup DOMAIN payload |->
        IF k \in DOMAIN payload THEN payload[k] ELSE user[k]]

\* ---- reducers
clearError(state) == [state EXCEPT !.error = NULL]

updateUser(state, payload) ==
    IF state.user # NoProfile
    THEN [state EXCEPT !.user = Spread(state.user, payload)]
    ELSE state

checkAuthPending(state) == [state EXCEPT !.loading = TRUE, !.error = NULL]

checkAuthFulfilled(state, user, token) ==
    [state EXCEPT !.loading = FALSE, !.user = user, !.token = token,
                  !.isAuthenticated = TRUE]

checkAuthRejected(state, message) ==
    [state EXCEPT !.loading = FALSE, !.user = NoProfile, !.token = NULL,
                  !.isAuthenticated = FALSE, !.error = message]

loginPending(state) == [state EXCEPT !.loading = TRUE, !.error = NULL]

loginFulfilled(state, user, token) ==
    [state EXCEPT !.loading = FALSE, !.user = user, !.token = token,
                  !.isAuthenticated = TRUE]

\* faulty variant: a rejected login forgets the user and stays signed in
loginRejectedForgetting(state, message) ==
    [state EXCEPT !.loading = FALSE, !.user = NoProfile, !.error = message]

loginRejected(state, message) ==
    [state EXCEPT !.loading = FALSE, !.error = message]

registerPending(state) == [state EXCEPT !.loading = TRUE, !.error = NULL]

registerFulfilled(state, user, token) ==
    [state EXCEPT !.loading = FALSE, !.user = user, !.token = token,
                  !.isAuthenticated = TRUE]

registerRejected(state, message) ==
    [state EXCEPT !.loading = FALSE, !.error = message]

logoutPending(state) == [state EXCEPT !.loading = TRUE]

logoutFulfilled(state) ==
    [state EXCEPT !.loading = FALSE, !.user = NoProfile, !.token = NULL,
                  !.isAuthenticated = FALSE, !.error = NULL]

\* faulty variant: a failed logout only reports its error
logoutRejectedKeeping(state, message) ==
    [state EXCEPT !.loading = FALSE, !.error = message]

logoutRejected(state, message) ==
    [state EXCEPT !.loading = FALSE, !.user = NoProfile, !.token = NULL,
                  !.isAuthenticated = FALSE, !.error = message]

\* ---- the store and the thunks
\* what a step of the front end leaves alone
nonSliceVars == <<rows, jobs, handlers, usageLog, events, calls, faultLimit, anyType,
                  rooms, inbox, authVars>>

InitSlice ==
    /\ rows = <<>>
    /\ jobs = <<>>
    /\ handlers = <<>>
    /\ usageLog = {}
    /\ events = {}
    /\ calls = <<>>
    /\ faultLimit = 0
    /\ anyType = FALSE
    /\ NoClients
    /\ NoAccounts
    /\ cookie \in Tokens \cup {NULL}
    /\ auth = initialState
    /\ pending = EmptyBag
    /\ dispatched = NULL

\* a checkAuth that found no cookie has thrown and rejects before the browser
\* handles another event
Throwing == BagIn(Thunk("checkAuth", NULL), pending)

MayDispatch == BagCardinality(pending) < MaxPending

\* the browser handles the answer of an API call
MaySettle(thunk) == BagIn(thunk, pending) /\ ~Throwing

Start(thunk) == pending' = pending (+) SetToBag({thunk})

Settle(thunk) == pending' = pending (-) SetToBag({thunk})

ClearError ==
    /\ auth' = clearError(auth)
    /\ dispatched' = "auth/clearError"
    /\ UNCHANGED <<cookie, pending, nonSliceVars>>

UpdateUser(payload) ==
    /\ auth' = updateUser(auth, payload)
    /\ dispatched' = "auth/updateUser"
    /\ UNCHANGED <<cookie, pending, nonSliceVars>>

\* dispatch(checkAuth()): the pending action, then the payload creator reads
\* the cookie; without one it throws and its catch removes the cookie
CheckAuth ==
    /\ MayDispatch
    /\ auth' = checkAuthPending(auth)
    /\ dispatched' = "auth/checkAuth/pending"
    /\ Start(Thunk("checkAuth", cookie))
    /\ UNCHANGED <<cookie, nonSliceVars>>

\* authAPI.me() answered
CheckAuthFulfilled(token, user) ==
    /\ MaySettle(Thunk("checkAuth", token))
    /\ token # NULL
    /\ auth' = checkAuthFulfilled(auth, user, token)
    /\ dispatched' = "auth/checkAuth/fulfilled"
    /\ Settle(Thunk("checkAuth", token))
    /\ UNCHANGED <<cookie, nonSliceVars>>

\* no token was found, or authAPI.me() failed
CheckAuthRejected(token, error) ==
    /\ BagIn(Thunk("checkAuth", token), pending)
    /\ token = NULL \/ ~Throwing
    /\ token = NULL => error = NULL
    /\ cookie' = NULL
    /\ auth' = checkAuthRejected(auth, Message(error, "Authentication failed"))
    /\ dispatched' = "auth/checkAuth/rejected"
    /\ Settle(Thunk("checkAuth", token))
    /\ UNCHANGED nonSliceVars

Login ==
    /\ MayDispatch
    /\ auth' = loginPending(auth)
    /\ dispatched' = "auth/login/pending"
    /\ Start(Thunk("login", NULL))
    /\ UNCHANGED <<cookie, nonSliceVars>>

LoginFulfilled(user, token) ==
    /\ MaySettle(Thunk("login", NULL))
    /\ cookie' = token
    /\ auth' = loginFulfilled(auth, user, token)
    /\ dispatched' = "auth/login/fulfilled"
    /\ Settle(Thunk("login", NULL))
    /\ UNCHANGED nonSliceVars

LoginRejected(error) ==
    /\ MaySettle(Thunk("login", NULL))
    /\ auth' = loginRejected(auth, Message(error, "Login failed"))
    /\ dispatched' = "auth/login/rejected"
    /\ Settle(Thunk("login", NULL))
    /\ UNCHANGED <<cookie, nonSliceVars>>

Register ==
    /\ MayDispatch
    /\ auth' = registerPending(auth)
    /\ dispatched' = "auth/register/pending"
    /\ Start(Thunk("register", NULL))
    /\ UNCHANGED <<cookie, nonSliceVars>>

RegisterFulfilled(user, token) ==
    /\ MaySettle(Thunk("register", NULL))
    /\ cookie' = token
    /\ auth' = registerFulfilled(auth, user, token)
    /\ dispatched' = "auth/register/fulfilled"
    /\ Settle(Thunk("register", NULL))
    /\ UNCHANGED nonSliceVars

RegisterRejected(error) ==
    /\ MaySettle(Thunk("register", NULL))
    /\ auth' = registerRejected(auth, Message(error, "Registration failed"))
    /\ dispatched' = "auth/register/rejected"
    /\ Settle(Thunk("register", NULL))
    /\ UNCHANGED <<cookie, nonSliceVars>>

LogoutThunk ==
    /\ MayDispatch
    /\ auth' = logoutPending(auth)
    /\ dispatched' = "auth/logout/pending"
    /\ Start(Thunk("logout", NULL))
    /\ UNCHANGED <<cookie, nonSliceVars>>

LogoutFulfilled ==
    /\ MaySettle(Thunk("logout", NULL))
    /\ cookie' = NULL
    /\ auth' = logoutFulfilled(auth)
    /\ dispatched' = "auth/logout/fulfilled"
    /\ Settle(Thunk("logout", NULL))
    /\ UNCHANGED nonSliceVars

LogoutRejected(error) ==
    /\ MaySettle(Thunk("logout", NULL))
    /\ cookie' = NULL
    /\ auth' = logoutRejected(auth, Message(error, "Logout failed"))
    /\ dispatched' = "auth/logout/rejected"
    /\ Settle(Thunk("logout", NULL))
    /\ UNCHANGED nonSliceVars

\* the cookie lives seven days
CookieExpires ==
    /\ ~Throwing
    /\ cookie # NULL
    /\ cookie' = NULL
    /\ UNCHANGED <<auth, pending, dispatched, nonSliceVars>>

NextSlice ==
    \/ ClearError
    \/ \E payload \in Updates : UpdateUser(payload)
    \/ CheckAuth
    \/ \E token \in Tokens : \E user \in Profiles : CheckAuthFulfilled(token, user)
    \/ \E token \in Tokens \cup {NULL} : \E error \in ApiErrors : CheckAuthRejected(token, error)
    \/ Login
    \/ \E user \in Profiles : \E token \in Tokens : LoginFulfilled(user, token)
    \/ \E error \in ApiErrors : LoginRejected(error)
    \/ Register
    \/ \E user \in Profiles : \E token \in Tokens : RegisterFulfilled(user, token)
    \/ \E error \in ApiErrors : RegisterRejected(error)
    \/ LogoutThunk
    \/ LogoutFulfilled
    \/ \E error \in ApiErrors : LogoutRejected(error)
    \/ CookieExpires

SpecSlice == InitSlice /\ [][NextSlice]_vars

\* ------------------------------------------------------------------ C11
\* attempts of job o the worker has started
AttemptsStarted(o) ==
    jobs[o].attemptsMade + (IF jobs[o].state = "active" THEN 1 ELSE 0)

\* C11: within an attempt the processor marks the row PROCESSING and only
\* then calls the backend, once: the backend is called at most once per
\* started attempt, only by an attempt whose PROCESSING update succeeded, and
\* never while the row of the job is not PROCESSING.
C11_BackendCalledOnlyWhileProcessing ==
    /\ [](\A o \in Ids : calls[o] <= AttemptsStarted(o))
    /\ [][\A o \in Ids :
            calls'[o] # calls[o] =>
                /\ jobs[o].pc = "call"
                /\ calls'[o] = calls[o] + 1
                /\ rows[o].status = "PROCESSING"]_vars

\* ------------------------------------------------------------------ C12
\* the UsageLog rows written for job o (the metadata of a row is the
\* backend's answer to an attempt of o)
UsageRowsOf(o) == {u \in usageLog : u.metadata[2] = o}

\* the processor of job o has returned without an exception
Succeeded(o) ==
    \/ jobs[o].state = "completed"
    \/ jobs[o].state = "active" /\ jobs[o].pc = "return"

\* C12: UsageLog is append-only with one row per successful generation: in
\* every state a job whose processor has returned successfully has exactly
\* one UsageLog row and every other job (not started, running, waiting for a
\* retry after failed attempts, finally failed) has none, and no step
\* changes or removes a row.
C12_OneUsageRowPerSuccess ==
    /\ [](\A o \in Ids :
            Cardinality(UsageRowsOf(o)) = IF Succeeded(o) THEN 1 ELSE 0)
    /\ [][usageLog \subseteq usageLog']_vars

\* a job completed by its retry after a failed attempt has one row, while a
\* finally failed job has none
C12_Witness ==
    \E o \in Ids :
        /\ jobs[o].state = "completed"
        /\ jobs[o].attemptsMade >= 2
        /\ Cardinality(UsageRowsOf(o)) = 1

\* ------------------------------------------------------------------ C13
\* C13: dispatch is fire-and-forget: a step that enqueues output o adds one
\* waiting job to the queue of the dispatch function called (3 attempts in
\* the image queue, 2 in the video queue) and changes nothing else: no other
\* job, no GeneratedOutput row, no backend call, no UsageLog row, no
\* notification, no failure handler.
C13_DispatchOnlyEnqueues ==
    [][\A o \in Ids :
        (jobs[o].state = "none" /\ jobs'[o] # jobs[o]) =>
            /\ jobs'[o].state = "wait"
            /\ jobs'[o].attemptsMade = 0
            /\ jobs'[o].data.outputId = o
            /\ jobs'[o].queue = QueueOf(rows[o].type)
            /\ jobs'[o].attempts = (IF jobs'[o].queue = "image" THEN 3 ELSE 2)
            /\ \A p \in Ids \ {o} : jobs'[p] = jobs[p]
            /\ UNCHANGED <<rows, calls, usageLog, events, handlers, inbox>>]_vars

\* a job has been enqueued while another output is not yet dispatched, and
\* its row is still PENDING with no backend call made for it
C13_Witness ==
    \E o, p \in Ids :
        /\ jobs[p].state = "none"
        /\ jobs[o].state = "wait"
        /\ jobs[o].attemptsMade = 0
        /\ rows[o].status = "PENDING"
        /\ calls[o] = 0

\* ------------------------------------------------------------------ C15
\* C15: the type field of every generation-complete and generation-failed
\* event emitted for a job equals the type carried in the data of that job,
\* whatever job data was passed to the dispatch function.
C15_EventTypeIsJobType ==
    \A o \in Ids : \A e \in EventsOf(o) : e.data.type = jobs[o].data.type

\* ------------------------------------------------------------------ C16
\* C16: the stored outcome is consistent with the status: a COMPLETED row
\* has the filePath and thumbnailPath of one backend response to the job and
\* no errorMessage (none either left by an earlier failed attempt), and a
\* FAILED row has an errorMessage.
C16_OutcomeMatchesStatus ==
    \A o \in Ids :
        /\ rows[o].status = "COMPLETED" =>
              /\ \E a \in 1..MaxAttempts :
                    /\ rows[o].filePath = Response(o, a).filePath
                    /\ rows[o].thumbnailPath = Response(o, a).thumbnailPath
              /\ rows[o].errorMessage = NULL
        /\ rows[o].status = "FAILED" => rows[o].errorMessage # NULL

\* ------------------------------------------------------------------ C14
\* C14: the generation events of a user reach only that user: a socket is in
\* the room user-{u} only if its client is signed in as u, and so no socket
\* has received an event emitted to the room of another user.
C14_EventsReachOnlyTheirUser ==
    \A s \in Sockets :
        /\ \A u \in Users : UserRoom(u) \in rooms[s] => SocketUser(s) = u
        /\ \A e \in inbox[s] : e.channel = UserRoom(SocketUser(s))

\* ------------------------------------------------------------------ C17
\* request r is answered by authenticate, or passed on by it, in this step
Authenticated(r) ==
    /\ reqs[r].pc = "idle"
    /\ reqs'[r].kind = "logout"
    /\ reqs'[r] # reqs[r]

\* the bearer token of header h verifies and a session row with exactly
\* this token exists that is active and not expired and whose user is active
Admissible(h) ==
    /\ h.scheme = "Bearer"
    /\ env.JWT_SECRET
    /\ h.token.sig = "server"
    /\ now < h.token.exp
    /\ \E s \in sessions :
          /\ s.token = h.token
          /\ s.isActive
          /\ s.expiresAt >= now
          /\ users[s.userId].isActive

\* C17: authenticate lets a request through, with req.user set, exactly if
\* its bearer token verifies and a UserSession row with that token exists,
\* is active and not expired and belongs to an active user; req.user is then
\* the id, email and username of the session's user.  Otherwise it passes an
\* error with status 401, or 500 (only when no JWT secret is configured),
\* and req.user stays unset.
C17_OnlyLiveSessionsPass ==
    [][\A r \in Requests :
        Authenticated(r) =>
            LET h == reqs'[r].header IN
            IF reqs'[r].pc = "handler"
            THEN /\ Admissible(h)
                 /\ \E s \in sessions :
                       /\ s.token = h.token
                       /\ reqs'[r].reqUser = [NoUser EXCEPT
                                                !.id = users[s.userId].id,
                                                !.email = users[s.userId].email,
                                                !.username = users[s.userId].username]
            ELSE /\ ~Admissible(h)
                 /\ reqs'[r].reqUser = NoUser
                 /\ reqs'[r].status \in {401, 500}
                 /\ reqs'[r].status = 500 => ~env.JWT_SECRET]_vars

\* authenticate has let a request through while another session was revoked
C17_Witness ==
    \E r \in Requests :
        /\ reqs[r].kind = "logout"
        /\ reqs[r].pc = "handler"
        /\ reqs[r].reqUser.id # 0
        /\ \E s \in sessions : ~s.isActive

\* ------------------------------------------------------------------ C18
\* POST /logout of request r is answered in this step
LoggedOut(r) ==
    /\ reqs[r].kind = "logout"
    /\ reqs[r].pc = "handler"
    /\ reqs'[r].pc = "idle"

\* C18: logout revokes exactly the presented token: a session that was
\* logged out is refused by authenticate with 401 ever after and no step
\* makes it active again or removes it, while a logout leaves every session
\* with another token as it is, so that it authenticates after the logout
\* if it did before.
C18_LogoutRevokesExactlyItsToken ==
    /\ [](\A s \in sessions :
            ~s.isActive =>
                /\ ~Authenticate(Header("Bearer", s.token)).ok
                /\ Authenticate(Header("Bearer", s.token)).status = 401)
    /\ [][\A s \in sessions : ~s.isActive => s \in sessions']_vars
    /\ [][\A r \in Requests :
            LoggedOut(r) =>
                /\ \A s \in sessions :
                      s.token = reqs[r].header.token =>
                          [s EXCEPT !.isActive = FALSE] \in sessions'
                /\ \A s \in sessions :
                      s.token # reqs[r].header.token =>
                          /\ s \in sessions'
                          /\ Authenticate(Header("Bearer", s.token)).ok =>
                                (Authenticate(Header("Bearer", s.token)).ok)']_vars

\* one session of a user is logged out while another session of the same
\* user still authenticates
C18_Witness ==
    \E s, t \in sessions :
        /\ s.userId = t.userId
        /\ ~s.isActive
        /\ t.isActive
        /\ Authenticate(Header("Bearer", t.token)).ok

\* ------------------------------------------------------------------ C19
\* POST /register of request r looks up or creates its user in this step
Registering(r) ==
    /\ reqs[r].pc \in {"idle", "create"}
    /\ reqs'[r].kind = "register"
    /\ reqs'[r] # reqs[r]

\* a user row holds the email or the username of body b
Taken(b) ==
    \E i \in DOMAIN users : users[i].email = b.email \/ users[i].username = b.username

\* C19: registration keeps emails and user names unique, also for requests
\* handled at the same time: no two User rows share an email or a username,
\* and a register request that finds its email or username taken is
\* answered 409 'Email or username already exists' and creates no User,
\* UserSubscription or UserSession row.
C19_RegistrationKeepsNamesUnique ==
    /\ [](\A i, j \in DOMAIN users :
            (users[i].email = users[j].email \/ users[i].username = users[j].username)
                => i = j)
    /\ [][\A r \in Requests :
            (Registering(r) /\ Taken(reqs'[r].body)) =>
                /\ reqs'[r].status = 409
                /\ reqs'[r].message = "Email or username already exists"
                /\ UNCHANGED <<users, subscriptions, sessions>>]_vars

\* ------------------------------------------------------------------ C20
\* POST /login of request r, past the user lookup, is answered in this step
LoginAnswered(r) ==
    /\ reqs[r].kind = "login"
    /\ reqs[r].pc = "session"
    /\ reqs'[r].pc = "idle"

\* body b holds the email or username of an active user and the password
\* of that user
ValidCredentials(b) ==
    \E i \in DOMAIN users :
        /\ users[i].isActive
        /\ users[i].email = b.login \/ users[i].username = b.login
        /\ Compare(b.password, users[i].password)

\* C20: with a JWT secret configured, every login with valid credentials of
\* an active user succeeds whatever sessions exist, also in the second in
\* which the user registered or logged in before: it is answered 200 with a
\* token, exactly one new active UserSession row, the one of this token, is
\* added, and authenticate accepts the token right after.
C20_ValidLoginSucceeds ==
    [][\A r \in Requests :
        (LoginAnswered(r) /\ env.JWT_SECRET /\ ValidCredentials(reqs[r].body)) =>
            /\ reqs'[r].status = 200
            /\ reqs'[r].token # NoToken
            /\ \E s \in sessions' \ sessions :
                  /\ sessions' = sessions \cup {s}
                  /\ s.token = reqs'[r].token
                  /\ s.isActive
                  /\ (Authenticate(Header("Bearer", s.token)).ok)']_vars

\* ------------------------------------------------------------------ C21
\* POST /login of request r runs its user lookup in this step
LoginLookedUp(r) ==
    /\ reqs[r].pc = "idle"
    /\ reqs'[r].kind = "login"
    /\ reqs'[r] # reqs[r]

\* the user rows whose email or username is the login name
Named(login) == {i \in DOMAIN users : users[i].email = login \/ users[i].username = login}

\* the response of request r in the next state is the rejection, and the
\* step has changed no table
RejectedUnchanged(r) ==
    /\ reqs'[r].pc = "idle"
    /\ reqs'[r].status = 401
    /\ reqs'[r].message = "Invalid credentials"
    /\ reqs'[r].token = NoToken
    /\ reqs'[r].user = NoUser
    /\ UNCHANGED <<users, subscriptions, sessions>>

\* C21: a rejected login reveals nothing about its cause and changes
\* nothing: a login name no user has, a login name only deactivated users
\* have, and a password that is not the one of the user found are all
\* answered with the same 401 'Invalid credentials' (no token, no user), and
\* the answering step creates no UserSession row and modifies no row.
C21_RejectedLoginTellsNothing ==
    [][\A r \in Requests :
        /\ (LoginLookedUp(r) /\ \A i \in Named(reqs'[r].body.login) : ~users[i].isActive)
              => RejectedUnchanged(r)
        /\ (LoginAnswered(r) /\ ~Compare(reqs[r].body.password, reqs[r].user.password))
              => RejectedUnchanged(r)]_vars

\* a login with the name of a deactivated account has just been rejected
\* while a session of that account exists
C21_Witness ==
    \E r \in Requests :
        /\ reqs[r].kind = "login"
        /\ reqs[r].status = 401
        /\ \E i \in Named(reqs[r].body.login) :
              /\ ~users[i].isActive
              /\ \E s \in sessions : s.userId = i

\* ------------------------------------------------------------------ C22
\* C22: whatever checkAuth, login, register, logout, clearError and
\* updateUser actions the store has reduced, in any interleaving of their
\* pending, fulfilled and rejected actions, isAuthenticated is true only
\* while user and token are both non-null.
C22_AuthenticatedHasUserAndToken ==
    auth.isAuthenticated => auth.user # NoProfile /\ auth.token # NULL

\* a signed-in client whose later login was rejected
C22_Witness ==
    /\ auth.isAuthenticated
    /\ dispatched = "auth/login/rejected"

\* ------------------------------------------------------------------ C23
SignedOut(state) ==
    /\ state.user = NoProfile
    /\ state.token = NULL
    /\ ~state.isAuthenticated

\* C23: the step in which a logout settles, fulfilled or rejected, and the
\* step in which a checkAuth is rejected leave the auth_token cookie
\* removed and the state with user = null, token = null and
\* isAuthenticated = false.
C23_LogoutAlwaysSignsOut ==
    [][(/\ pending' # pending
        /\ dispatched' \in {"auth/logout/fulfilled", "auth/logout/rejected",
                            "auth/checkAuth/rejected"})
       => (cookie' = NULL /\ SignedOut(auth'))]_vars

\* a logout whose server call failed, of a client that was signed in
C23_Witness ==
    /\ dispatched = "auth/logout/rejected"
    /\ auth.error = "Logout failed"
    /\ cookie = NULL
    /\ SignedOut(auth)

\* ------------------------------------------------------------------ C24
\* C24: loading is true whenever at least one checkAuth, login, register or
\* logout thunk is in flight, also when several overlap; it is false only
\* when none is pending.
C24_LoadingWhileAnyThunkPending ==
    BagCardinality(pending) > 0 => auth.loading
====
